---- MODULE Spec2Model ----
(***************************************************************************)
(* Model of the URL shortener's request handlers (src/routes/short_urls.rs) *)
(* running concurrently against one short_urls relation.                   *)
(*                                                                         *)
(* Strings are sequences of one-character strings, so that starts_with,    *)
(* the base-62 encoder's push and format!("/{}", code) are computed.       *)
(* Every storage round trip of a handler is one step; the steps of         *)
(* different requests interleave freely.                                   *)
(***************************************************************************)
EXTENDS Integers, Sequences, FiniteSets, Bags, TLC

\* ------------------------------------------------------------------ bounds
\* Number of requests in flight at once (actix workers / pooled connections).
NumWorkers == 2
\* Total number of requests issued in one behaviour.
MaxRequests == 3
\* Total number of storage round trips that fail as unavailable / timed out.
MaxFaults == 1
\* Greatest id offered to the code generator on its own (besides the ids
\* around the powers of the base).
MaxIdent == 130

\* ------------------------------------------------------------- input values
HTTP == <<"h", "t", "t", "p", ":", "/", "/">>
HTTPS == <<"h", "t", "t", "p", "s", ":", "/", "/">>

\* Request bodies offered to POST /generate.
Urls ==
    { <<>>,
      <<"f", "t", "p", ":", "/", "/", "x">>,
      HTTP \o <<"x">>,
      HTTPS \o <<"x">>,
      HTTPS \o <<"y">> }

\* Path segments offered to GET /{short_code}.
Codes == { <<"a">>, <<"b">>, <<"c">> }

\* ------------------------------------------------------------------- state
VARIABLES
    registry,    \* the short_urls relation, rows in insertion order
    nextId,      \* next value of the id column's sequence
    clock,       \* the wall clock read by Utc::now()
    inflight,    \* bag of the requests being served, each with its await
                 \* point (pc), body.url, local short_code, the Utc::now()
                 \* bound to the INSERT, and the storage round trips it made
    resp,        \* the response sent last
    history,     \* the responses sent before it
    started,     \* number of requests received so far
    faults,      \* number of storage round trips that failed as unavailable
    overlapped,  \* whether a request was ever received while another was in flight
    lookup,      \* the code generator on its own: the outcome of its query
    yielded    \* the code generator on its own: what it returned for lookup

vars == <<registry, nextId, clock, inflight, resp, history, started, faults,
          overlapped, lookup, yielded>>

\* ------------------------------------------------------- pure functions
allowed_chars ==
    << "a", "b", "c", "d", "e", "f", "g", "h", "i", "j", "k", "l", "m",
       "n", "o", "p", "q", "r", "s", "t", "u", "v", "w", "x", "y", "z",
       "A", "B", "C", "D", "E", "F", "G", "H", "I", "J", "K", "L", "M",
       "N", "O", "P", "Q", "R", "S", "T", "U", "V", "W", "X", "Y", "Z",
       "0", "1", "2", "3", "4", "5", "6", "7", "8", "9" >>

base == Len(allowed_chars)

\* str::starts_with
starts_with(s, p) == Len(s) >= Len(p) /\ SubSeq(s, 1, Len(p)) = p

is_valid_only_http(url) == url # <<>> /\ starts_with(url, HTTP)

\* is_valid: non-empty and begins with http:// or https://
is_valid(url) ==
    url # <<>> /\ (starts_with(url, HTTP) \/ starts_with(url, HTTPS))

\* The while loop of generate_short_code: least significant digit pushed first.
encode_single_digit(num) ==
    IF num > 0 THEN <<allowed_chars[(num % base) + 1]>> ELSE <<>>

RECURSIVE encode(_)
encode(num) ==
    IF num > 0
    THEN <<allowed_chars[(num % base) + 1]>> \o encode(num \div base)
    ELSE <<>>

\* Ok(record) arm of generate_short_code: the code for the row that was read.
next_code(id) == encode(id + 1)

\* Err arm of generate_short_code when no row is returned.
first_code == <<"a">>

\* format!("/{}", short_code)
short_url(code) == <<"/">> \o code

\* ------------------------------------------------------------ the relation
Rows == { registry[i] : i \in 1..Len(registry) }

\* SELECT short_code FROM short_urls WHERE original_url = $1
rows_by_url(url) == { r \in Rows : r.original_url = url }

\* SELECT original_url FROM short_urls WHERE short_code = $1
rows_by_code(code) == { r \in Rows : r.short_code = code }

oldest_rows == { r \in Rows : \A q \in Rows : r.created_at <= q.created_at }

\* SELECT id FROM short_urls ORDER BY created_at DESC LIMIT 1
\* (any of the rows with the greatest created_at)
latest_rows == { r \in Rows : \A q \in Rows : q.created_at <= r.created_at }

unique_violation_url_only(url, code) == \E r \in Rows : r.original_url = url

unique_violation_code_only(url, code) == \E r \in Rows : r.short_code = code

\* The relation's two unique indexes, as the INSERT meets them.
unique_violation(url, code) ==
    \E r \in Rows : r.original_url = url \/ r.short_code = code

\* The id column: the sequence value an evaluated INSERT draws is never
\* drawn again, whether the row is stored or refused.
next_id_after(result) ==
    IF result.err = "Unavailable" THEN nextId ELSE nextId + 1

\* ---------------------------------------------------- results and options
\* Result<row, sqlx::Error> of one storage round trip.
Ok(row) == [ok |-> TRUE, row |-> row, err |-> "none"]
Err(e) == [ok |-> FALSE, row |-> <<>>, err |-> e]
\* Option<String>
Some(v) == [some |-> TRUE, val |-> v]
None == [some |-> FALSE, val |-> <<>>]

\* Whether a storage round trip may still fail as unavailable.
MayFail == faults < MaxFaults

Unavailable == IF MayFail THEN {Err("Unavailable")} ELSE {}

\* fetch_one: the row, or RowNotFound ("no rows returned by a query that
\* expected to return at least one row"), or a transport failure.
fetch_one(rows) ==
    (IF rows = {} THEN {Err("RowNotFound")} ELSE {Ok(r) : r \in rows})
        \cup Unavailable

\* execute of the INSERT: a unique index refuses it, or it is applied, or
\* the transport fails before it is applied.
execute_insert(url, code) ==
    (IF unique_violation(url, code) THEN {Err("Conflict")} ELSE {Ok(<<>>)})
        \cup Unavailable

\* ------------------------------------------------ the handlers' match arms
fetch_long_url_wrong_column(result) ==
    IF result.ok THEN Some(result.row.short_code) ELSE None

\* fetch_long_url: Ok(record) => Some(original_url), Err(_) => None
fetch_long_url(result) ==
    IF result.ok THEN Some(result.row.original_url) ELSE None

fetch_short_code_never_found(result) == None

fetch_short_code_wrong_column(result) ==
    IF result.ok THEN Some(result.row.original_url) ELSE None

\* fetch_short_code: Ok(record) => Some(short_code), Err(_) => None
fetch_short_code(result) ==
    IF result.ok THEN Some(result.row.short_code) ELSE None

generate_short_code_guess_on_error(result) ==
    IF result.ok THEN Ok(next_code(result.row.id)) ELSE Ok(first_code)

\* generate_short_code: Ok(record) => encode(record.id + 1);
\* Err(e) => "a" if e is "no rows returned", else Err(e)
generate_short_code(result) ==
    IF result.ok THEN Ok(next_code(result.row.id))
    ELSE IF result.err = "RowNotFound" THEN Ok(first_code)
    ELSE Err(result.err)

navigate_response_error_on_none(found) ==
    IF found.some
    THEN [status |-> 308, payload |-> found.val]
    ELSE [status |-> 500, payload |-> <<>>]

\* navigate_to_long_url: Some(url) => 308 with Location: url, None => 404
navigate_response(found) ==
    IF found.some
    THEN [status |-> 308, payload |-> found.val]
    ELSE [status |-> 404, payload |-> <<>>]

\* ------------------------------------------------------------- bookkeeping
Call(name, arg, result) ==
    [call |-> name, arg |-> arg, outcome |-> result.err]

Response(op, arg, status, payload, cs, inserted) ==
    [ op |-> op, arg |-> arg, status |-> status, payload |-> payload,
      calls |-> cs, inserted |-> inserted ]

NoResponse == Response("none", <<>>, 0, <<>>, <<>>, FALSE)

\* Every response sent so far.
Responses == (history \cup {resp}) \ {NoResponse}

\* Number of responses sent so far.
Completed == started - BagCardinality(inflight)

Failed(result) == IF result.err = "Unavailable" THEN 1 ELSE 0

Request(pc, url, code, ts, cs) ==
    [ pc |-> pc, body |-> url, short_code |-> code, now |-> ts, calls |-> cs ]

InFlight == BagToSet(inflight)

Init ==
    /\ registry = <<>>
    /\ nextId = 1
    /\ clock = 0
    /\ inflight = EmptyBag
    /\ resp = NoResponse
    /\ history = {}
    /\ started = 0
    /\ faults = 0
    /\ overlapped = FALSE
    /\ lookup = Err("none")
    /\ yielded = Err("none")

\* Whether the present clock value was bound by a request or stored in a row.
ClockRead ==
    \/ \E row \in Rows : row.created_at = clock
    \/ \E q \in InFlight : q.pc = "execute" /\ q.now = clock

\* A storage round trip takes time: a Utc::now() read after it is later than
\* every Utc::now() read before it.  Only reads with no round trip between
\* them (two workers at the same instant) can be equal.
RoundTrip == clock' = IF ClockRead THEN clock + 1 ELSE clock

\* A request is received while a worker is free.
Receive ==
    /\ BagCardinality(inflight) < NumWorkers
    /\ started < MaxRequests
    /\ started' = started + 1
    /\ overlapped' = (overlapped \/ inflight # EmptyBag)

\* A response is sent.
Respond(op, arg, status, payload, cs, inserted) ==
    /\ resp' = Response(op, arg, status, payload, cs, inserted)
    /\ history' = Responses

\* Request r moves on to its next await point.
Continue(r, next) ==
    /\ inflight' = (inflight (-) SetToBag({r})) (+) SetToBag({next})
    /\ UNCHANGED <<resp, history>>

\* Request r is answered and leaves.
Finish(r, status, payload, cs, inserted) ==
    /\ inflight' = inflight (-) SetToBag({r})
    /\ Respond("shorten", r.body, status, payload, cs, inserted)

\* ------------------------------------------------------------ GET /{code}
\* navigate_to_long_url: one lookup by short code, then the response.
navigate_to_long_url(code) ==
    /\ Receive
    /\ \E result \in fetch_one(rows_by_code(code)) :
        LET answer == navigate_response(fetch_long_url(result)) IN
        /\ Respond("resolve", code, answer.status, answer.payload,
                   <<Call("fetch_long_url", code, result)>>, FALSE)
        /\ faults' = faults + Failed(result)
    /\ RoundTrip
    /\ UNCHANGED <<registry, nextId, inflight, lookup, yielded>>

\* ---------------------------------------------------------- POST /generate
\* generate_short_url up to its first await: the is_valid check.
generate_short_url(url) ==
    /\ Receive
    /\ IF is_valid(url)
       THEN /\ inflight' = inflight (+)
                    SetToBag({Request("fetch_short_code", url, <<>>, 0, <<>>)})
            /\ UNCHANGED <<resp, history>>
       ELSE /\ Respond("shorten", url, 400, <<>>, <<>>, FALSE)
            /\ UNCHANGED inflight
    /\ UNCHANGED <<registry, nextId, clock, faults, lookup, yielded>>

\* The dedup lookup: an existing code is returned, anything else goes on.
dedup_lookup(r) ==
    /\ r.pc = "fetch_short_code"
    /\ \E result \in fetch_one(rows_by_url(r.body)) :
        LET existing == fetch_short_code(result)
            cs == Append(r.calls, Call("fetch_short_code", r.body, result)) IN
        /\ IF existing.some
           THEN Finish(r, 200, short_url(existing.val), cs, FALSE)
           ELSE Continue(r, Request("generate_short_code", r.body, <<>>, 0, cs))
        /\ faults' = faults + Failed(result)
    /\ RoundTrip
    /\ UNCHANGED <<registry, nextId, started, overlapped, lookup, yielded>>

\* The highest-id read and the encoding of the next code.
generate_code(r) ==
    /\ r.pc = "generate_short_code"
    /\ \E result \in fetch_one(latest_rows) :
        LET generated == generate_short_code(result)
            cs == Append(r.calls, Call("generate_short_code", <<>>, result)) IN
        /\ IF generated.ok
           THEN Continue(r, Request("insert_new_url", r.body, generated.row,
                                    0, cs))
           ELSE Finish(r, 500, <<>>, cs, FALSE)
        /\ faults' = faults + Failed(result)
    /\ RoundTrip
    /\ UNCHANGED <<registry, nextId, started, overlapped, lookup, yielded>>

\* insert_new_url binds Utc::now() before the INSERT is sent: requests in
\* flight together may bind equal times, and may reach the storage engine
\* in another order than they bound them.  The clock read is monotonic.
bind_created_at(r) ==
    /\ r.pc = "insert_new_url"
    /\ Continue(r, Request("execute", r.body, r.short_code, clock, r.calls))
    /\ UNCHANGED <<registry, nextId, clock, started, faults, overlapped,
                   lookup, yielded>>

new_row_unstamped(r) ==
    [ id |-> nextId, original_url |-> r.body, short_code |-> r.short_code,
      created_at |-> 0 ]

\* The row of request r's INSERT.
new_row(r) ==
    [ id |-> nextId, original_url |-> r.body, short_code |-> r.short_code,
      created_at |-> r.now ]

upsert_rows(r, result) ==
    IF result.ok THEN Append(registry, new_row(r))
    ELSE IF result.err = "Conflict"
    THEN [ i \in DOMAIN registry |->
            IF registry[i].original_url = r.body
            THEN [registry[i] EXCEPT !.created_at = r.now]
            ELSE registry[i] ]
    ELSE registry

\* INSERT INTO short_urls (original_url, short_code, created_at): the
\* relation after the statement, a plain INSERT that stores one row or none.
inserted_rows(r, result) ==
    IF result.ok THEN Append(registry, new_row(r)) ELSE registry

\* The INSERT reaches the storage engine and the handler answers.
insert_new_url(r) ==
    /\ r.pc = "execute"
    /\ \E result \in execute_insert(r.body, r.short_code) :
        LET cs == Append(r.calls,
                         Call("insert_new_url", r.short_code, result)) IN
        /\ registry' = inserted_rows(r, result)
        /\ IF result.ok
           THEN Finish(r, 200, short_url(r.short_code), cs, TRUE)
           ELSE Finish(r, 500, <<>>, cs, FALSE)
        /\ nextId' = next_id_after(result)
        /\ faults' = faults + Failed(result)
    /\ RoundTrip
    /\ UNCHANGED <<started, overlapped, lookup, yielded>>

Next ==
    \/ \E code \in Codes : navigate_to_long_url(code)
    \/ \E url \in Urls : generate_short_url(url)
    \/ \E r \in InFlight : dedup_lookup(r)
    \/ \E r \in InFlight : generate_code(r)
    \/ \E r \in InFlight : bind_created_at(r)
    \/ \E r \in InFlight : insert_new_url(r)

Spec == Init /\ [][Next]_vars

\* ------------------------------------------- the code generator on its own
\* Ids the query of generate_short_code may return: the small ones and
\* those whose successor takes a third and a fourth digit.
Idents ==
    (1..MaxIdent)
        \cup { base * base - 2, base * base - 1, base * base,
               base * base * base - 1 }

\* Outcomes of SELECT id ... LIMIT 1: no row, a row, a failed round trip.
Lookups ==
    {Err("RowNotFound"), Err("Unavailable")}
        \cup { Ok([id |-> k]) : k \in Idents }

EncInit ==
    /\ registry = <<>>
    /\ nextId = 1
    /\ clock = 0
    /\ inflight = EmptyBag
    /\ resp = NoResponse
    /\ history = {}
    /\ started = 0
    /\ faults = 0
    /\ overlapped = FALSE
    /\ lookup \in Lookups
    /\ yielded = Err("pending")

\* generate_short_code applied to the outcome of its query.
generate_for_lookup ==
    /\ yielded = Err("pending")
    /\ yielded' = generate_short_code(lookup)
    /\ UNCHANGED <<registry, nextId, clock, inflight, resp, history, started,
                   faults, overlapped, lookup>>

EncNext == generate_for_lookup

EncSpec == EncInit /\ [][EncNext]_vars

\* ------------------------------------------------- vocabulary of the claims
Shortens == { e \in Responses : e.op = "shorten" }
Resolves == { e \in Responses : e.op = "resolve" }

\* The short code a 200 response of POST /generate carries after the "/".
returned_code(e) == Tail(e.payload)

\* The outcomes of the storage round trips a request made.
Outcomes(e) == { e.calls[i].outcome : i \in DOMAIN e.calls }

\* How many times a request sent its INSERT.
InsertAttempts(e) ==
    Cardinality({ i \in DOMAIN e.calls : e.calls[i].call = "insert_new_url" })

\* A URL that is not empty and begins with http:// or https://.
WellFormed(u) ==
    /\ Len(u) > 0
    /\ \E p \in {HTTP, HTTPS} :
        Len(p) <= Len(u) /\ \A i \in 1..Len(p) : u[i] = p[i]

\* ------------------------------------------------------------------ claims

\* C1: two shorten requests for two distinct valid new URLs, the only
\* requests served from an empty registry and in any interleaving, both
\* succeed and leave exactly two records with two distinct short codes.
C1_ConcurrentShortensBothSucceed ==
    \A e1, e2 \in Shortens :
        ( /\ started = 2 /\ inflight = EmptyBag /\ faults = 0
          /\ e1.arg # e2.arg /\ WellFormed(e1.arg) /\ WellFormed(e2.arg) )
        => /\ e1.status = 200 /\ e2.status = 200
           /\ returned_code(e1) # returned_code(e2)
           /\ Len(registry) = 2
           /\ registry[1].short_code # registry[2].short_code

\* C2: a shorten request whose INSERT ended in Conflict is not failed on
\* that first occurrence: it fails only after more than one attempt.
C2_ConflictIsRetried ==
    \A e \in Shortens :
        (e.status # 200 /\ "Conflict" \in Outcomes(e)) => InsertAttempts(e) > 1

\* C3: in every reachable state no two records have the same short_code.
C3_ShortCodeUnique ==
    \A i, j \in 1..Len(registry) :
        i # j => registry[i].short_code # registry[j].short_code

\* C3 witness: two records are stored and a request was refused its INSERT
\* because the code it had generated is carried by the record of another URL.
C3_Witness ==
    /\ Len(registry) = 2
    /\ \E e \in Shortens :
        /\ Len(e.calls) = 3
        /\ e.calls[3].outcome = "Conflict"
        /\ \E r \in rows_by_code(e.calls[3].arg) : r.original_url # e.arg

\* C4: in every reachable state no two records have the same original_url,
\* also when several requests for one URL all miss the dedup lookup.
C4_OriginalUrlUnique ==
    \A i, j \in 1..Len(registry) :
        i # j => registry[i].original_url # registry[j].original_url

\* C4 witness: a request whose dedup lookup missed sent an INSERT with a
\* code no record carries, and was refused: its URL had been stored meanwhile.
C4_Witness ==
    \E e \in Shortens :
        /\ Len(e.calls) = 3
        /\ e.calls[1].outcome = "RowNotFound"
        /\ e.calls[3].outcome = "Conflict"
        /\ rows_by_code(e.calls[3].arg) = {}
        /\ rows_by_url(e.arg) # {}

\* C5: once shorten(u) has returned a code, a later shorten(u) inserts
\* nothing, returns the same code whenever it returns one, does return it
\* when the requests ran one after another and storage answered, and
\* exactly one record with original_url = u exists.
C5_DedupIdempotent ==
    \A e \in history :
        (e.op = "shorten" /\ e.status = 200
            /\ resp.op = "shorten" /\ resp.arg = e.arg)
        => /\ ~resp.inserted
           /\ resp.status = 200 => resp.payload = e.payload
           /\ (~overlapped /\ "Unavailable" \notin Outcomes(resp))
                => resp.status = 200
           /\ Cardinality(rows_by_url(e.arg)) = 1
           /\ \A r \in rows_by_url(e.arg) : r.short_code = returned_code(e)

\* C5 witness: the second shorten of a URL answered with the stored code
\* while another URL was shortened as well.
C5_Witness ==
    /\ Len(registry) = 2
    /\ \E e \in history :
        /\ e.op = "shorten" /\ e.status = 200 /\ e.inserted
        /\ resp.op = "shorten" /\ resp.arg = e.arg
        /\ resp.status = 200 /\ resp.payload = e.payload

\* C6: once shorten(u) has returned code c, resolve(c) never answers with
\* anything but u, and answers with a redirect to u whenever its lookup was
\* answered by the storage engine.
C6_RoundTrip ==
    \A e \in history :
        (e.op = "shorten" /\ e.status = 200
            /\ resp.op = "resolve" /\ resp.arg = returned_code(e))
        => /\ resp.status = 308 => resp.payload = e.arg
           /\ "Unavailable" \notin Outcomes(resp)
                => (resp.status = 308 /\ resp.payload = e.arg)

\* C6 witness: with two records stored, the code returned for the record
\* stored second is resolved to its URL.
C6_Witness ==
    /\ Len(registry) = 2
    /\ \E e \in history :
        /\ e.op = "shorten" /\ e.status = 200
        /\ e.arg = registry[2].original_url
        /\ resp.op = "resolve" /\ resp.arg = returned_code(e)
        /\ resp.status = 308 /\ resp.payload = e.arg

\* C7: with requests served one after another from an empty registry and
\* storage answering, the first shorten of a valid URL returns "a" and the
\* next shorten of a different valid URL returns "b".
C7_FirstCodesAreAThenB ==
    LET before == { e \in history : e.op = "shorten" /\ WellFormed(e.arg) } IN
    (~overlapped /\ faults = 0 /\ resp.op = "shorten" /\ WellFormed(resp.arg))
    => /\ before = {}
            => (resp.status = 200 /\ returned_code(resp) = <<"a">>)
       /\ (before # {} /\ \A e \in before : e.arg # resp.arg)
            => (resp.status = 200 /\ returned_code(resp) = <<"b">>)

\* C8: shorten(u) is answered 400 exactly when u is empty or begins with
\* neither http:// nor https://; a rejected request makes no storage round
\* trip and the step that rejects it leaves the registry as it was.
C8_Rejected ==
    \A e \in Shortens :
        /\ e.status = 400 <=> ~WellFormed(e.arg)
        /\ e.status = 400 => (e.calls = <<>> /\ ~e.inserted)

C8_RegistryUntouched ==
    (started' = started + 1 /\ resp'.status = 400) => registry' = registry

C8_Validation == []C8_Rejected /\ [][C8_RegistryUntouched]_vars

\* C8 witness: with a record stored, a non-empty URL of another scheme was
\* rejected and an https:// URL was accepted.
C8_Witness ==
    /\ registry # <<>>
    /\ resp.op = "shorten" /\ resp.status = 400 /\ resp.arg # <<>>
    /\ \E e \in Shortens : e.status = 200 /\ e.arg = HTTPS \o <<"x">>

\* C9: a resolve of a code that no record carries when it is looked up is
\* answered 404, never with a redirect or a server error.
C9_MissStep ==
    (started' = started + 1 /\ resp'.op = "resolve"
        /\ Completed' = Completed + 1 /\ rows_by_code(resp'.arg) = {})
    => resp'.status = 404

C9_NotFound == [][C9_MissStep]_vars

\* C9 witness: with a record stored, a code that no record carries was
\* looked up, the storage engine answered, and the response was 404.
C9_Witness ==
    /\ registry # <<>>
    /\ resp.op = "resolve" /\ resp.status = 404
    /\ rows_by_code(resp.arg) = {}
    /\ Outcomes(resp) = {"RowNotFound"}

\* C10: a resolve whose storage lookup failed is answered with a server-side
\* storage failure, not with NotFound.
C10_StorageFailureSurfaces ==
    \A e \in Resolves :
        "Unavailable" \in Outcomes(e) => (e.status >= 500 /\ e.status # 404)

\* ------------------------------------ claims about the generator on its own
\* The candidate identifier of spec 4.2: highestId + 1, or 1 for no row.
Candidate(result) == IF result.ok THEN result.row.id + 1 ELSE 1

\* The outcomes of the query for which a code is returned.
Coded == { l \in Lookups : generate_short_code(l).ok }

\* C11: the generator's codes for distinct candidate identifiers differ, the
\* encoder's strings for distinct identifiers differ, and only identifier 1
\* gets the code of the empty registry.
C11_Injective ==
    yielded.ok =>
        /\ \A other \in Coded \ {lookup} :
            generate_short_code(other).row # yielded.row
        /\ \A other \in Coded \ {lookup} :
            encode(Candidate(other)) # encode(Candidate(lookup))
        /\ yielded.row = first_code => Candidate(lookup) = 1

\* C11 witness: a three-digit code was returned.
C11_Witness == yielded.ok /\ Len(yielded.row) = 3

\* C12: the code issued for an empty registry is the string the base-62
\* encoder produces for identifier 1.
C12_FirstCodeIsEncodeOfOne ==
    (lookup = Err("RowNotFound") /\ yielded.ok) => yielded.row = encode(1)

\* ------------------------------------------------ claims about the handlers
\* The storage round trip a response was sent after.
LastCall(e) == e.calls[Len(e.calls)]

\* C13: no step changes or removes a stored record; the registry changes
\* only by one record appended by the INSERT of a shorten answered 200;
\* resolve, a dedup hit and a failed shorten leave it as it was.
C13_Step ==
    /\ \A i \in 1..Len(registry) :
        Len(registry') >= i /\ registry'[i] = registry[i]
    /\ registry' # registry =>
        /\ Len(registry') = Len(registry) + 1
        /\ Completed' = Completed + 1
        /\ resp'.op = "shorten" /\ resp'.status = 200
        /\ LastCall(resp').call = "insert_new_url"
        /\ LastCall(resp').outcome = "none"
        /\ registry'[Len(registry')].original_url = resp'.arg
        /\ short_url(registry'[Len(registry')].short_code) = resp'.payload
    /\ ( /\ Completed' = Completed + 1
         /\ \/ resp'.op = "resolve"
            \/ resp'.status # 200
            \/ LastCall(resp').call = "fetch_short_code" )
       => registry' = registry

C13_RegistryOnlyGrows == [][C13_Step]_vars

\* C13 witness: with a record stored, a shorten was answered from the dedup
\* lookup and another was refused its INSERT.
C13_Witness ==
    /\ registry # <<>>
    /\ resp.op = "shorten" /\ resp.status = 500
    /\ "Conflict" \in Outcomes(resp)
    /\ \E e \in history : e.op = "shorten" /\ e.status = 200 /\ ~e.inserted

\* C14: every record's short_code is the encoding of the record's own id,
\* the first record and records stored after a refused INSERT included.
C14_CodeIsEncodingOfOwnId ==
    \A row \in Rows : row.short_code = encode(row.id)

\* C15: the record the generator's query selects, the one with the greatest
\* created_at, has the greatest id of the registry.
C15_LatestIsGreatestId ==
    \A r \in latest_rows : \A q \in Rows : q.id <= r.id

\* C15 witness: two records stored by overlapping requests, one of which
\* lost the race for a code to another.
C15_Witness ==
    /\ Len(registry) >= 2
    /\ overlapped
    /\ \E e \in Shortens : "Conflict" \in Outcomes(e)

\* Whether a request's round trip number i was the named call and met the
\* storage failure.
Unreachable(cs, i, name) ==
    /\ Len(cs) >= i
    /\ cs[i].call = name
    /\ cs[i].outcome = "Unavailable"

\* C16: a shorten whose highest-id lookup met a storage failure is answered
\* with a failure straight after that lookup: it sends no INSERT and stores
\* no record under a guessed code.
C16_GeneratorFailureFailsShorten ==
    /\ \A q \in InFlight : ~Unreachable(q.calls, 2, "generate_short_code")
    /\ \A e \in Shortens :
        Unreachable(e.calls, 2, "generate_short_code")
        => /\ e.status = 500
           /\ Len(e.calls) = 2
           /\ InsertAttempts(e) = 0
           /\ ~e.inserted

\* C16 witness: the highest-id lookup failed while records were stored.
C16_Witness ==
    /\ registry # <<>>
    /\ resp.op = "shorten"
    /\ Unreachable(resp.calls, 2, "generate_short_code")

\* C17: a shorten whose dedup lookup met a storage failure is answered with
\* that failure and goes no further: no code is generated, nothing inserted.
C17_DedupFailureFailsShorten ==
    /\ \A q \in InFlight : ~Unreachable(q.calls, 1, "fetch_short_code")
    /\ \A e \in Shortens :
        Unreachable(e.calls, 1, "fetch_short_code")
        => /\ e.status = 500
           /\ Len(e.calls) = 1
           /\ ~e.inserted

\* ------------------------------------------------ the encoder's arithmetic
\* The value of a digit of the alphabet: 'a' is 0, '9' is 61.
DigitOf(c) == CHOOSE d \in 0..(base - 1) : allowed_chars[d + 1] = c

\* The number a digit string denotes, least significant digit first.
RECURSIVE Value(_)
Value(code) ==
    IF code = <<>> THEN 0 ELSE DigitOf(Head(code)) + base * Value(Tail(code))

\* C18: for every candidate identifier n >= 1 the generator returns the
\* base-62 representation of n, least significant digit first: a non-empty
\* string over the alphabet, without padding, whose digits sum to n.
C18_Base62OfCandidate ==
    yielded.ok =>
        /\ Len(yielded.row) > 0
        /\ \A i \in DOMAIN yielded.row :
            \E d \in DOMAIN allowed_chars : allowed_chars[d] = yielded.row[i]
        /\ DigitOf(yielded.row[Len(yielded.row)]) # 0
        /\ Value(yielded.row) = Candidate(lookup)

\* ------------------------------------------------ claims about sequences
\* Requests ran one after another and no storage round trip failed.
Sequential == ~overlapped /\ faults = 0

\* C19: when requests run one after another and storage never fails, from
\* the empty registry every shorten of a valid URL succeeds: the code it
\* generated is no stored record's code, and its INSERT is never refused.
C19_SequentialShortenSucceeds ==
    Sequential =>
        /\ \A q \in InFlight :
            q.pc \in {"insert_new_url", "execute"}
            => rows_by_code(q.short_code) = {}
        /\ \A e \in Shortens :
            WellFormed(e.arg)
            => /\ e.status = 200
               /\ "Conflict" \notin Outcomes(e)
               /\ \E row \in rows_by_url(e.arg) :
                    row.short_code = returned_code(e)
        /\ Len(registry) =
            Cardinality({ e.arg : e \in { s \in Shortens : WellFormed(s.arg) } })

\* C19 witness: three URLs shortened one after another, each stored.
C19_Witness ==
    /\ Sequential
    /\ Len(registry) = 3
    /\ resp.op = "shorten" /\ resp.inserted

\* The successful shortens of URL u.
Successes(u) == { e \in Shortens : e.arg = u /\ e.status = 200 }

\* C20: however shorten requests for one URL interleave, all that report
\* success report one code, the short_code of the single record stored for
\* that URL.
C20_SameUrlSameCode ==
    \A u \in Urls :
        Successes(u) # {}
        => /\ \A e, f \in Successes(u) : e.payload = f.payload
           /\ \E row \in rows_by_url(u) :
                /\ rows_by_url(u) = {row}
                /\ \A e \in Successes(u) : e.payload = short_url(row.short_code)

\* C20 witness: of three shortens of one URL, two overlapping ones both
\* missed the dedup lookup, one stored the record and the other was refused,
\* and the third was answered from the stored record.
C20_Witness ==
    \E u \in Urls :
        /\ overlapped
        /\ \E e, f \in Successes(u) : e.inserted /\ ~f.inserted
        /\ \E g \in Shortens :
            g.arg = u /\ g.status = 500 /\ "Conflict" \in Outcomes(g)

====
